---- MODULE Spec2Model ----
(***************************************************************************)
(* AWSIoTAscoltatore (lib/awsiot_ascoltatore.js): a pub/sub adapter that   *)
(* multiplexes many local subscribers over one MQTT transport handle.      *)
(*                                                                         *)
(* One action is one turn of the JavaScript event loop: a public method    *)
(* called by the application, an event or acknowledgment callback invoked  *)
(* by the transport, or one task of the deferred (setImmediate) queue.     *)
(* The variable `out` records what the last turn did, in program order.    *)
(***************************************************************************)
EXTENDS Integers, Sequences, FiniteSets, Bags, TLC

VARIABLES
    subs_counter,   \* this._subs_counter: pattern -> number of local subscribers
    trie,           \* this._ascoltatore: the live (pattern, callback) registrations
    client,         \* this._client: a handle id, or Undefined
    closed,         \* this._closed
    hstate,         \* the transport handles created so far and their state
    closeL,         \* once("close") listeners registered on each handle
    inflight,       \* requests given to a handle whose acknowledgment is outstanding
    batches,        \* reconnectTopics joins: patterns whose acknowledgment is awaited
    deferred,       \* the queue of deferred tasks
    broker,         \* the patterns the broker holds subscribed for this._client
    out             \* what the last turn did

vars == <<subs_counter, trie, client, closed, hstate, closeL, inflight, batches,
          deferred, broker, out>>

----------------------------------------------------------------------------
(* Bounds of the model *)

MaxClients == 2     \* transport handles ever created
MaxCount == 2       \* subscribers counted per pattern
MaxInflight == 1    \* requests awaiting acknowledgment
MaxDeferred == 1    \* length of the deferred queue
MaxBatches == 1     \* reconnectTopics joins in progress
MaxCloseCalls == 2  \* close() calls awaiting the "close" event of one handle

Undefined == 0      \* the value of this._client when the property is absent

Callbacks == {"c1", "c2"}
Patterns == {<<"a", "+">>, <<"a", "#">>}
Topics == {<<"a", "b">>}
\* the topics of inbound messages where the dispatch is examined
DispatchTopics == {<<"a", "b">>, <<"a", "b", "c">>}
CloseDones == {"k"}
Handles == 1..MaxClients

\* the (pattern, callback) pairs the application subscribes and unsubscribes
Subs == {<<<<"a", "+">>, "c1">>, <<<<"a", "+">>, "c2">>, <<<<"a", "#">>, "c1">>}

NoTopic == <<>>
NoQos == -1         \* options.qos === undefined

\* the first argument of an acknowledgment callback: null, or the failure
AckErrors == {"null", "failed"}

----------------------------------------------------------------------------
(* Collaborators that live outside lib/awsiot_ascoltatore.js *)

\* SubsCounter.include
Include(cnt, p) == cnt[p] > 0

\* SubsCounter.add
Add(cnt, p) == [cnt EXCEPT ![p] = @ + 1]

\* SubsCounter.remove: a no-op when the pattern is not counted
Remove(cnt, p) == IF cnt[p] > 0 THEN [cnt EXCEPT ![p] = @ - 1] ELSE cnt

\* SubsCounter.keys
Keys(cnt) == {p \in DOMAIN cnt : cnt[p] > 0}

\* SubsCounter.clear
Clear(cnt) == [p \in DOMAIN cnt |-> 0]

\* TrieAscoltatore.subscribe / unsubscribe / close
TrieSubscribe(tr, p, cb) == tr \cup {<<p, cb>>}
TrieUnsubscribe(tr, p, cb) == tr \ {<<p, cb>>}
TrieClose(tr) == {}

\* topic matching of the dispatch engine: "+" is one segment, a trailing "#"
\* is one or more segments
RECURSIVE Matches(_, _)
Matches(p, t) ==
    IF p = <<>> THEN t = <<>>
    ELSE IF Head(p) = "#" THEN Len(p) = 1 /\ Len(t) >= 1
    ELSE IF t = <<>> THEN FALSE
    ELSE (Head(p) = "+" \/ Head(p) = Head(t)) /\ Matches(Tail(p), Tail(t))

\* TrieAscoltatore.publish: the callbacks invoked for a literal topic
TrieMatch(tr, t) == {cb \in Callbacks : \E p \in Patterns : <<p, cb>> \in tr /\ Matches(p, t)}

\* AbstractAscoltatore._subTopic / _pubTopic / _recvTopic: the naming policy
\* between local and wire-level topics
SubTopic(p) == <<"wire">> \o p
PubTopic(t) == <<"wire">> \o t
RecvTopic(w) == Tail(w)

----------------------------------------------------------------------------
(* Records *)

\* one effect of a turn
Eff(e, h, op, topic, who, qos, retain, err) ==
    [e |-> e, h |-> h, op |-> op, topic |-> topic, who |-> who, qos |-> qos,
     retain |-> retain, err |-> err]

\* an effect on the adapter's own state, an emitted event or a thrown error
E0(e, who) == Eff(e, 0, "", NoTopic, who, NoQos, "", "")
\* a done or subscriber callback being deferred or invoked; every done is
\* deferred or called without arguments (lines 119, 123, 138, 149, 174, 178)
ETok(e, tok) == Eff(e, 0, tok.op, tok.topic, tok.who, NoQos, "", "undefined")
\* a call on transport handle h
ECall(e, h, topic, qos, retain) == Eff(e, h, "", topic, "", qos, retain, "")
\* the transport calls an acknowledgment callback with the error err
EAck(err) == Eff("ack", 0, "", NoTopic, "", NoQos, "", err)

\* a done callback: the operation it was given to
Tok(op, topic, who) == [op |-> op, topic |-> topic, who |-> who]

\* a deferred task: the function given to defer and the arguments it is called
\* with, which are none
Task(kind, tok) ==
    [kind |-> kind, op |-> tok.op, topic |-> tok.topic, who |-> tok.who,
     err |-> "undefined"]

\* a request the broker has received and answered with err, whose
\* acknowledgment has not reached the adapter yet
Req(kind, tok, err) ==
    [kind |-> kind, op |-> tok.op, topic |-> tok.topic, who |-> tok.who, err |-> err]

\* the options argument of publish: absent, or an object whose qos and retain
\* fields may each be undefined
NoOptions == [present |-> FALSE, qos |-> NoQos, retain |-> "undefined"]
OptionsSet ==
    {NoOptions} \cup
    {[present |-> TRUE, qos |-> q, retain |-> r] :
        q \in {NoQos, 0, 1, 2}, r \in {"undefined", "true", "false"}}

\* the record of a turn
Out(act, opts, eff) == [act |-> act, opts |-> opts, eff |-> eff]

RECURSIVE SetToSeq(_)
SetToSeq(S) ==
    IF S = {} THEN <<>>
    ELSE LET x == CHOOSE y \in S : TRUE IN <<x>> \o SetToSeq(S \ {x})

InflightCount == BagCardinality(inflight)

\* util.defer(done): done is queued and runs in a later turn
Defer(q, tok) == Append(q, Task("done", tok))

\* util.wrap(done)(): done is called at once, within the caller's turn
Wrap(tok) == <<ETok("invoke", tok)>>

\* the lowest element of a non-empty set of numbers
Lowest(S) == CHOOSE x \in S : \A y \in S : x <= y

----------------------------------------------------------------------------
(* Construction *)

Init ==
    /\ subs_counter = [p \in Patterns |-> 0]
    /\ trie = {}
    /\ client = 1
    /\ closed = FALSE
    /\ hstate = [h \in Handles |-> IF h = 1 THEN "connecting" ELSE "none"]
    /\ closeL = [h \in Handles |-> <<>>]
    /\ inflight = EmptyBag
    /\ batches = [b \in 1..MaxBatches |-> {}]
    /\ deferred = <<>>
    /\ broker = {}
    /\ out = Out("constructor", NoOptions,
                 <<ECall("device", 1, NoTopic, NoQos, "")>>)

----------------------------------------------------------------------------
(* _startConn *)

\* a _startConn without the test of line 57
StartConnAlways ==
    /\ \E h \in Handles : hstate[h] = "none"
    /\ LET h == Lowest({x \in Handles : hstate[x] = "none"}) IN
       /\ client' = h
       /\ hstate' = [hstate EXCEPT ![h] = "connecting"]
       /\ out' = Out("_startConn", NoOptions,
                     <<ECall("device", h, NoTopic, NoQos, "")>>)
    /\ UNCHANGED <<broker, subs_counter, trie, closed, closeL, inflight,
                   batches, deferred>>

StartConn ==
    IF client = Undefined
    THEN /\ \E h \in Handles : hstate[h] = "none"
         /\ LET h == Lowest({x \in Handles : hstate[x] = "none"}) IN
            /\ client' = h
            /\ hstate' = [hstate EXCEPT ![h] = "connecting"]
            /\ out' = Out("_startConn", NoOptions,
                          <<ECall("device", h, NoTopic, NoQos, "")>>)
         /\ UNCHANGED <<broker, subs_counter, trie, closed, closeL, inflight,
                        batches, deferred>>
    ELSE /\ out' = Out("_startConn", NoOptions, <<>>)
         /\ UNCHANGED <<broker, subs_counter, trie, client, closed, hstate,
                        closeL, inflight, batches, deferred>>

----------------------------------------------------------------------------
(* subscribe *)

\* the broker receives a subscribe of p from this._client and answers err
BrokerSubscribe(p, err) == IF err = "null" THEN broker \cup {p} ELSE broker

\* the broker receives an unsubscribe of p from this._client and answers err
BrokerUnsubscribe(p, err) == IF err = "null" THEN broker \ {p} ELSE broker

\* a subscribe without its closed check
SubscribeRaisesNever == FALSE

\* line 108: this._raiseIfClosed()
SubscribeRaises == closed

\* a subscribe that makes the broker round trip for every subscriber
SubscribeFirstAlways(p) == TRUE

\* line 110: the broker round trip is made when the pattern is not counted yet
SubscribeFirst(p) == ~Include(subs_counter, p)

Subscribe(p, cb) ==
    LET tok == Tok("subscribe", p, "") IN
    /\ subs_counter[p] < MaxCount
    /\ IF SubscribeRaises
       THEN /\ out' = Out("subscribe", NoOptions, <<E0("throw", "ClosedError")>>)
            /\ UNCHANGED <<broker, subs_counter, trie, client, closed, hstate,
                           closeL, inflight, batches, deferred>>
       ELSE IF SubscribeFirst(p)
       THEN IF client = Undefined
            THEN /\ out' = Out("subscribe", NoOptions, <<E0("throw", "TypeError")>>)
                 /\ UNCHANGED <<broker, subs_counter, trie, client, closed,
                                hstate, closeL, inflight, batches, deferred>>
            ELSE /\ InflightCount < MaxInflight
                 /\ \E err \in AckErrors :
                       /\ inflight' = inflight (+) SetToBag({Req("sub", tok, err)})
                       /\ broker' = BrokerSubscribe(p, err)
                 /\ subs_counter' = Add(subs_counter, p)
                 /\ trie' = TrieSubscribe(trie, p, cb)
                 /\ out' = Out("subscribe", NoOptions,
                               <<ECall("client.subscribe", client, SubTopic(p), 1, "")>>)
                 /\ UNCHANGED <<client, closed, hstate, closeL, batches,
                                deferred>>
       ELSE /\ Len(deferred) < MaxDeferred
            /\ deferred' = Defer(deferred, tok)
            /\ subs_counter' = Add(subs_counter, p)
            /\ trie' = TrieSubscribe(trie, p, cb)
            /\ out' = Out("subscribe", NoOptions, <<ETok("defer", tok)>>)
            /\ UNCHANGED <<broker, client, closed, hstate, closeL, inflight,
                           batches>>

----------------------------------------------------------------------------
(* unsubscribe *)

\* line 143: this._raiseIfClosed()
UnsubscribeRaises == closed

\* line 155: other subscribers remain, so no broker round trip is made
UnsubscribeStillCounted(cnt, p) == Include(cnt, p)

\* an unsubscribe that leaves the dispatch engine as it is
UnsubscribeEngineKeeps(p, cb) == trie

\* line 152: the registration leaves the dispatch engine within the call
UnsubscribeEngine(p, cb) == TrieUnsubscribe(trie, p, cb)

Unsubscribe(p, cb) ==
    LET tok == Tok("unsubscribe", p, "")
        cnt == Remove(subs_counter, p)
    IN
    IF UnsubscribeRaises
    THEN /\ out' = Out("unsubscribe", NoOptions, <<E0("throw", "ClosedError")>>)
         /\ UNCHANGED <<broker, subs_counter, trie, client, closed, hstate,
                        closeL, inflight, batches, deferred>>
    ELSE /\ trie' = UnsubscribeEngine(p, cb)
         /\ subs_counter' = cnt
         /\ IF UnsubscribeStillCounted(cnt, p)
            THEN /\ Len(deferred) < MaxDeferred
                 /\ deferred' = Defer(deferred, tok)
                 /\ out' = Out("unsubscribe", NoOptions, <<ETok("defer", tok)>>)
                 /\ UNCHANGED <<broker, client, closed, hstate, closeL,
                                inflight, batches>>
            ELSE IF client = Undefined
            THEN /\ out' = Out("unsubscribe", NoOptions, <<E0("throw", "TypeError")>>)
                 /\ UNCHANGED <<broker, client, closed, hstate, closeL,
                                inflight, batches, deferred>>
            ELSE /\ InflightCount < MaxInflight
                 /\ \E err \in AckErrors :
                       /\ inflight' = inflight (+) SetToBag({Req("unsub", tok, err)})
                       /\ broker' = BrokerUnsubscribe(p, err)
                 /\ out' = Out("unsubscribe", NoOptions,
                               <<ECall("client.unsubscribe", client, SubTopic(p), NoQos,
                                       "")>>)
                 /\ UNCHANGED <<client, closed, hstate, closeL, batches,
                                deferred>>

----------------------------------------------------------------------------
(* publish *)

\* line 131: this._raiseIfClosed()
PublishRaises == closed

\* a default applied with `options.qos || 1`, which also replaces qos 0
PublishQosOr(options) ==
    IF options.present /\ options.qos # NoQos /\ options.qos # 0 THEN options.qos ELSE 1

\* line 134
PublishQos(options) == IF options.present /\ options.qos # NoQos THEN options.qos ELSE 1

\* line 135
PublishRetain(options) ==
    IF options.present /\ options.retain # "undefined" THEN options.retain ELSE "false"

Publish(t, options) ==
    LET tok == Tok("publish", t, "") IN
    IF PublishRaises
    THEN /\ out' = Out("publish", NoOptions, <<E0("throw", "ClosedError")>>)
         /\ UNCHANGED <<broker, subs_counter, trie, client, closed, hstate,
                        closeL, inflight, batches, deferred>>
    ELSE IF client = Undefined
    THEN /\ out' = Out("publish", NoOptions, <<E0("throw", "TypeError")>>)
         /\ UNCHANGED <<broker, subs_counter, trie, client, closed, hstate,
                        closeL, inflight, batches, deferred>>
    ELSE /\ InflightCount < MaxInflight
         /\ \E err \in AckErrors : inflight' = inflight (+) SetToBag({Req("pub", tok, err)})
         /\ out' = Out("publish", options,
                       <<ECall("client.publish", client, PubTopic(t), PublishQos(options),
                               PublishRetain(options))>>)
         /\ UNCHANGED <<broker, subs_counter, trie, client, closed, hstate,
                        closeL, batches, deferred>>

----------------------------------------------------------------------------
(* close *)

\* line 167: the first-invocation branch is taken while this._closed is unset
CloseFirst == ~closed

\* AbstractAscoltatore: the "closed" event sets this._closed
EmitSetsClosed(ev) == ev = "closed"

Close(d) ==
    LET tok == Tok("close", NoTopic, d) IN
    IF CloseFirst
    THEN /\ subs_counter' = Clear(subs_counter)
         /\ IF client = Undefined
            THEN /\ out' = Out("close", NoOptions,
                               <<E0("counter.clear", ""), E0("throw", "TypeError")>>)
                 /\ UNCHANGED <<broker, trie, client, closed, hstate, closeL,
                                inflight, batches, deferred>>
            ELSE /\ Len(closeL[client]) < MaxCloseCalls
                 /\ closeL' = [closeL EXCEPT ![client] = Append(@, d)]
                 /\ hstate' = [hstate EXCEPT ![client] = "ended"]
                 /\ out' = Out("close", NoOptions, <<E0("counter.clear", ""),
                                 ECall("client.once", client, NoTopic, NoQos, ""),
                                 ECall("client.end", client, NoTopic, NoQos, "")>>)
                 /\ UNCHANGED <<broker, trie, client, closed, inflight, batches,
                                deferred>>
    ELSE /\ out' = Out("close", NoOptions, Wrap(tok))
         /\ UNCHANGED <<broker, subs_counter, trie, client, closed, hstate,
                        closeL, inflight, batches, deferred>>

\* lines 169-175: the once("close") listener of one close(done) call
CloseListener(d) ==
    <<E0("trie.close", ""), E0("delete client", ""), E0("emit", "closed"),
      ETok("defer", Tok("close", NoTopic, d))>>

RECURSIVE FlatMap(_, _)
FlatMap(F(_), s) == IF s = <<>> THEN <<>> ELSE F(Head(s)) \o FlatMap(F, Tail(s))

\* the transport's "close" event on handle h, after end()
CloseEvent(h) ==
    LET eff == FlatMap(CloseListener, closeL[h])
        has(e) == \E i \in DOMAIN eff : eff[i].e = e
        dones == SelectSeq(eff, LAMBDA x : x.e = "defer")
    IN
    /\ hstate[h] = "ended"
    /\ Len(deferred) < MaxDeferred
    /\ hstate' = [hstate EXCEPT ![h] = "closed"]
    /\ closeL' = [closeL EXCEPT ![h] = <<>>]
    /\ trie' = IF has("trie.close") THEN TrieClose(trie) ELSE trie
    /\ client' = IF has("delete client") THEN Undefined ELSE client
    /\ closed' = (closed \/ \E i \in DOMAIN eff : eff[i].e = "emit" /\ EmitSetsClosed(eff[i].who))
    /\ deferred' = deferred \o [i \in DOMAIN dones |-> Task("done", dones[i])]
    /\ out' = Out("on close", NoOptions, eff)
    /\ broker' = IF client' = Undefined \/ h = client THEN {} ELSE broker
    /\ UNCHANGED <<subs_counter, inflight, batches>>

----------------------------------------------------------------------------
(* The transport's events and acknowledgments *)

\* line 90: the patterns reconnectTopics replays
ReplayTopics == Keys(subs_counter)

\* lines 62-67 and 87-105: the "connect" event of handle h, the first one or,
\* after the transport lost and re-established its connection, a later one
Connect(h) ==
    LET keys == ReplayTopics
        \* the connection of h is new: the broker holds nothing for it yet
        fresh == IF h = client THEN {} ELSE broker
    IN
    /\ hstate[h] \in {"connecting", "connected"}
    /\ hstate' = [hstate EXCEPT ![h] = "connected"]
    /\ IF keys = {}
       THEN /\ out' = Out("on connect", NoOptions, <<E0("emit", "ready")>>)
            /\ broker' = fresh
            /\ UNCHANGED <<inflight, batches>>
       ELSE IF client = Undefined
       THEN /\ out' = Out("on connect", NoOptions, <<E0("throw", "TypeError")>>)
            /\ broker' = fresh
            /\ UNCHANGED <<inflight, batches>>
       ELSE /\ \E b \in DOMAIN batches : batches[b] = {}
            /\ LET b == Lowest({x \in DOMAIN batches : batches[x] = {}}) IN
               batches' = [batches EXCEPT ![b] = keys]
            /\ broker' = fresh \cup keys
            /\ UNCHANGED inflight
            /\ out' = Out("on connect", NoOptions,
                          [i \in 1..Cardinality(keys) |->
                              ECall("client.subscribe", client, SubTopic(SetToSeq(keys)[i]),
                                    1, "")])
    /\ UNCHANGED <<subs_counter, trie, client, closed, closeL, deferred>>

\* a "message" handler that dispatches within the transport's own callback
MessageSync(h, w) ==
    LET cbs == SetToSeq(TrieMatch(trie, RecvTopic(w))) IN
    /\ hstate[h] = "connected"
    /\ out' = Out("on message", NoOptions,
                  [i \in DOMAIN cbs |->
                      ETok("callback", Tok("message", RecvTopic(w), cbs[i]))])
    /\ UNCHANGED <<broker, subs_counter, trie, client, closed, hstate, closeL,
                   inflight, batches, deferred>>

\* lines 69-76: the "message" event of handle h with wire-level topic w
Message(h, w) ==
    LET tok == Tok("message", RecvTopic(w), "") IN
    /\ hstate[h] = "connected"
    /\ Len(deferred) < MaxDeferred
    /\ deferred' = Append(deferred, Task("dispatch", tok))
    /\ out' = Out("on message", NoOptions, <<ETok("defer", tok)>>)
    /\ UNCHANGED <<broker, subs_counter, trie, client, closed, hstate, closeL,
                   inflight, batches>>

\* lines 77-82: the "error" event of handle h; the handle keeps its listeners
\* and the transport goes on working on it (after end() it only closes)
TransportError(h) ==
    /\ hstate[h] \in {"connecting", "connected"}
    /\ client' = Undefined
    /\ broker' = {}
    /\ out' = Out("on error", NoOptions,
                  <<E0("delete client", ""), E0("emit", "error")>>)
    /\ UNCHANGED <<subs_counter, trie, closed, hstate, closeL, inflight,
                   batches, deferred>>

\* an acknowledgment callback of subscribe that forgets done
SubscribeAckDrops(r, err) == <<>>

\* lines 117-120: the acknowledgment callback of subscribe; it declares no
\* parameter, so the error err it is called with is not read
SubscribeAck(r, err) == <<ETok("defer", Tok(r.op, r.topic, r.who))>>

\* lines 147-150: newDone, the acknowledgment callback of unsubscribe; it
\* declares no parameter either
UnsubscribeAck(r, err) == <<ETok("defer", Tok(r.op, r.topic, r.who))>>

\* lines 136-139: the acknowledgment callback of publish; it declares no
\* parameter, and wrap(done)() calls done without arguments
PublishAck(r, err) == Wrap(Tok(r.op, r.topic, r.who))

\* lines 97-103: the acknowledgment callback of the replayed subscribe of
\* pattern p in join b; the join calls cb once every one has been acknowledged
ReplayAck(b, p) ==
    /\ p \in batches[b]
    /\ batches' = [batches EXCEPT ![b] = @ \ {p}]
    /\ out' = Out("ack resub", NoOptions,
                  IF batches[b] = {p} THEN <<E0("emit", "ready")>> ELSE <<>>)
    /\ UNCHANGED <<broker, subs_counter, trie, client, closed, hstate, closeL,
                   inflight, deferred>>

\* the acknowledgment of request r arrives, reporting err
Ack(r, err) ==
    LET eff == CASE r.kind = "sub" -> SubscribeAck(r, err)
                 [] r.kind = "unsub" -> UnsubscribeAck(r, err)
                 [] r.kind = "pub" -> PublishAck(r, err)
        dones == SelectSeq(eff, LAMBDA x : x.e = "defer")
    IN
    /\ r \in BagToSet(inflight)
    /\ err = r.err
    /\ Len(deferred) + Len(dones) <= MaxDeferred
    /\ inflight' = inflight (-) SetToBag({r})
    /\ deferred' = deferred \o [i \in DOMAIN dones |-> Task("done", dones[i])]
    /\ out' = Out("ack " \o r.kind, NoOptions, <<EAck(err)>> \o eff)
    /\ UNCHANGED <<broker, subs_counter, trie, client, closed, hstate, closeL,
                   batches>>

----------------------------------------------------------------------------
(* The deferred queue *)

\* a dispatch that invokes a callback once for every matching registration
RunDeferredPerPattern ==
    /\ deferred # <<>>
    /\ LET task == Head(deferred)
           tok == Tok(task.op, task.topic, task.who)
       IN
       out' = Out("deferred", NoOptions,
                  IF task.kind = "dispatch"
                  THEN LET regs == SetToSeq({r \in trie : Matches(r[1], task.topic)}) IN
                       [i \in DOMAIN regs |->
                           ETok("callback", Tok("message", task.topic, regs[i][2]))]
                  ELSE <<ETok("invoke", tok)>>)
    /\ deferred' = Tail(deferred)
    /\ UNCHANGED <<broker, subs_counter, trie, client, closed, hstate, closeL,
                   inflight, batches>>

\* the head of the queue runs in a turn of its own
RunDeferred ==
    /\ deferred # <<>>
    /\ LET task == Head(deferred)
           tok == Tok(task.op, task.topic, task.who)
       IN
       out' = Out("deferred", NoOptions,
                  IF task.kind = "dispatch"
                  THEN LET cbs == SetToSeq(TrieMatch(trie, task.topic)) IN
                       [i \in DOMAIN cbs |-> ETok("callback", Tok("message", task.topic, cbs[i]))]
                  ELSE <<ETok("invoke", tok)>>)
    /\ deferred' = Tail(deferred)
    /\ UNCHANGED <<broker, subs_counter, trie, client, closed, hstate, closeL,
                   inflight, batches>>

----------------------------------------------------------------------------
(* Specifications *)

\* every turn the application and the transport can take
Next ==
    \/ StartConn
    \/ \E s \in Subs : Subscribe(s[1], s[2])
    \/ \E s \in Subs : Unsubscribe(s[1], s[2])
    \/ \E t \in Topics : Publish(t, NoOptions)
    \/ \E d \in CloseDones : Close(d)
    \/ \E h \in Handles : CloseEvent(h)
    \/ \E h \in Handles : Connect(h)
    \/ \E h \in Handles, t \in Topics : Message(h, PubTopic(t))
    \/ \E h \in Handles : TransportError(h)
    \/ \E r \in BagToSet(inflight), err \in AckErrors : Ack(r, err)
    \/ \E b \in DOMAIN batches, p \in Patterns : ReplayAck(b, p)
    \/ RunDeferred

Spec == Init /\ [][Next]_vars

\* the interleavings of subscribe and unsubscribe calls, with the transport's
\* connect events and acknowledgments
NextSubs ==
    \/ \E s \in Subs : Subscribe(s[1], s[2])
    \/ \E s \in Subs : Unsubscribe(s[1], s[2])
    \/ \E h \in Handles : Connect(h)
    \/ \E r \in BagToSet(inflight), err \in AckErrors : Ack(r, err)
    \/ \E b \in DOMAIN batches, p \in Patterns : ReplayAck(b, p)
    \/ RunDeferred

SpecSubs == Init /\ [][NextSubs]_vars

\* the requests subscribe and unsubscribe calls can have in flight, without
\* the broker's answer
SubsRequests == {"sub", "unsub"} \X Patterns

\* the acknowledgment of a request of kind k for pattern p arrives
AckOf(k, p) ==
    \E r \in BagToSet(inflight), err \in AckErrors :
        r.kind = k /\ r.topic = p /\ Ack(r, err)

\* the same, with a broker that acknowledges every request in the end and an
\* event loop that runs every deferred task
SpecSubsLive ==
    /\ Init /\ [][NextSubs]_vars
    /\ \A q \in SubsRequests : SF_vars(AckOf(q[1], q[2]))
    /\ WF_vars(RunDeferred)

\* publish with every shape of the options argument
NextPublish ==
    \/ StartConn
    \/ \E t \in Topics, o \in OptionsSet : Publish(t, o)
    \/ \E d \in CloseDones : Close(d)
    \/ \E h \in Handles : CloseEvent(h)
    \/ \E h \in Handles : Connect(h)
    \/ \E h \in Handles : TransportError(h)
    \/ \E r \in BagToSet(inflight), err \in AckErrors : Ack(r, err)
    \/ RunDeferred

SpecPublish == Init /\ [][NextPublish]_vars

\* inbound messages on topics of two and of three segments, between
\* subscribe and unsubscribe calls
NextDispatch ==
    \/ \E s \in Subs : Subscribe(s[1], s[2])
    \/ \E s \in Subs : Unsubscribe(s[1], s[2])
    \/ \E h \in Handles : Connect(h)
    \/ \E h \in Handles, t \in DispatchTopics : Message(h, PubTopic(t))
    \/ \E r \in BagToSet(inflight), err \in AckErrors : Ack(r, err)
    \/ \E b \in DOMAIN batches, p \in Patterns : ReplayAck(b, p)
    \/ RunDeferred

SpecDispatch == Init /\ [][NextDispatch]_vars

----------------------------------------------------------------------------
(* Reading the record of a turn *)

Has(o, e) == \E i \in DOMAIN o.eff : o.eff[i].e = e
Threw(o, err) == \E i \in DOMAIN o.eff : o.eff[i].e = "throw" /\ o.eff[i].who = err
Emitted(o, ev) == \E i \in DOMAIN o.eff : o.eff[i].e = "emit" /\ o.eff[i].who = ev
\* the number of calls of method m made on the transport with wire topic w
CallCount(o, m, w) == Cardinality({i \in DOMAIN o.eff : o.eff[i].e = m /\ o.eff[i].topic = w})
\* the wire topics method m was called with
CallTopics(o, m) == {o.eff[i].topic : i \in {j \in DOMAIN o.eff : o.eff[j].e = m}}
\* any call on a transport handle
TouchedHandle(o) == \E i \in DOMAIN o.eff : o.eff[i].h # 0
ApiActs == {"subscribe", "unsubscribe", "publish"}

One(b) == IF b THEN 1 ELSE 0

----------------------------------------------------------------------------
(* C1: broker-level subscribe and unsubscribe calls against count transitions *)

\* C1 as stated: in every interleaving of subscribe and unsubscribe calls, a
\* call issues one client.subscribe for its pattern exactly when the pattern's
\* count goes from 0 to 1, one client.unsubscribe exactly when the count goes
\* from 1 to 0, and no broker-level call for the pattern otherwise.
C1_AsStated ==
    [][\A s \in Subs :
          (Subscribe(s[1], s[2]) \/ Unsubscribe(s[1], s[2])) =>
              /\ CallCount(out', "client.subscribe", SubTopic(s[1]))
                    = One(subs_counter[s[1]] = 0 /\ subs_counter'[s[1]] = 1)
              /\ CallCount(out', "client.unsubscribe", SubTopic(s[1]))
                    = One(subs_counter[s[1]] = 1 /\ subs_counter'[s[1]] = 0)
              /\ \A q \in Patterns \ {s[1]} :
                    /\ CallCount(out', "client.subscribe", SubTopic(q)) = 0
                    /\ CallCount(out', "client.unsubscribe", SubTopic(q)) = 0]_vars

\* C1 amended: as C1, but one client.unsubscribe is issued by every unsubscribe
\* call that leaves the pattern's count at 0, that is on every 1 -> 0
\* transition and also when the count already was 0.
C1_Amended ==
    [][\A s \in Subs :
          (Subscribe(s[1], s[2]) \/ Unsubscribe(s[1], s[2])) =>
              /\ CallCount(out', "client.subscribe", SubTopic(s[1]))
                    = One(subs_counter[s[1]] = 0 /\ subs_counter'[s[1]] = 1)
              /\ CallCount(out', "client.unsubscribe", SubTopic(s[1]))
                    = One(Unsubscribe(s[1], s[2]) /\ subs_counter'[s[1]] = 0)
              /\ \A q \in Patterns \ {s[1]} :
                    /\ CallCount(out', "client.subscribe", SubTopic(q)) = 0
                    /\ CallCount(out', "client.unsubscribe", SubTopic(q)) = 0]_vars

\* the second subscriber of a pattern has subscribed without a broker call
C1_Witness ==
    /\ out.act = "subscribe"
    /\ ~TouchedHandle(out)
    /\ \E p \in Patterns : subs_counter[p] = 2 /\ {<<p, "c1">>, <<p, "c2">>} \subseteq trie

----------------------------------------------------------------------------
(* C2: the replay on a connect event *)

\* C2 as stated: on every "connect" event reconnectTopics issues a
\* client.subscribe for exactly the patterns of SubsCounter.keys(), and "ready"
\* is emitted only once every replayed subscribe has been acknowledged.
C2_AsStated ==
    [][/\ (\E h \in Handles : Connect(h)) =>
            /\ CallTopics(out', "client.subscribe")
                  = {SubTopic(p) : p \in Keys(subs_counter)}
            /\ Emitted(out', "ready") => Keys(subs_counter) = {}
       /\ (Emitted(out', "ready") /\ ~(\E h \in Handles : Connect(h))) =>
            \E b \in DOMAIN batches : batches[b] # {} /\ batches'[b] = {}]_vars

----------------------------------------------------------------------------
(* C3: inbound dispatch is deferred *)

\* C3: the "message" callback of the transport only defers the dispatch; a
\* subscriber callback is invoked in a turn of the deferred queue and in no
\* other turn.
C3_DispatchDeferred ==
    /\ out.act = "on message" => (~Has(out, "callback") /\ Has(out, "defer"))
    /\ Has(out, "callback") => out.act = "deferred"

\* a deferred turn has delivered a message to a subscriber
C3_Witness == out.act = "deferred" /\ Has(out, "callback")

----------------------------------------------------------------------------
(* C4: operations after close() has completed *)

\* C4: once "closed" was emitted, subscribe, unsubscribe and publish throw the
\* closed error, call nothing on the transport handle and leave the counter,
\* the dispatch engine and everything else as it was.
C4_ClosedRejects ==
    [][closed =>
          \A s \in Subs, t \in Topics :
              (Subscribe(s[1], s[2]) \/ Unsubscribe(s[1], s[2]) \/ Publish(t, NoOptions)) =>
                  /\ Threw(out', "ClosedError")
                  /\ ~TouchedHandle(out')
                  /\ UNCHANGED <<subs_counter, trie, client, inflight, deferred>>]_vars

\* a subscribe on a closed adapter was rejected
C4_Witness == closed /\ out.act = "subscribe" /\ Threw(out, "ClosedError")

----------------------------------------------------------------------------
(* C5: close() called twice *)

\* C5 as stated: no close() call throws, client.end is never requested of a
\* handle it was already requested of, and a close() on a closed adapter only
\* invokes done.
C5_AsStated ==
    [][\A d \in CloseDones :
          Close(d) =>
              /\ ~Has(out', "throw")
              /\ Has(out', "client.end") => hstate[client] # "ended"
              /\ closed => (out'.eff = <<ETok("invoke", Tok("close", NoTopic, d))>>
                            /\ UNCHANGED <<subs_counter, trie, client, hstate, closeL>>)]_vars

----------------------------------------------------------------------------
(* C6: operations while closing *)

\* close() was called and the "close" event of the transport has not arrived
Closing == ~closed /\ \E h \in Handles : hstate[h] = "ended"

\* C6 as stated: subscribe, unsubscribe and publish throw the closed error
\* while the adapter is closing.
C6_AsStated == (Closing /\ out.act \in ApiActs) => Threw(out, "ClosedError")

----------------------------------------------------------------------------
(* C7: the transport's "error" event *)

\* C7 as stated: the "error" event deletes the handle, emits "error" and
\* leaves counter and dispatch engine alone, and the next "connect" event
\* replays exactly the patterns that are counted.
C7_AsStated ==
    [][/\ (\E h \in Handles : TransportError(h)) =>
            /\ client' = Undefined
            /\ Emitted(out', "error")
            /\ UNCHANGED <<subs_counter, trie>>
       /\ (client = Undefined /\ ~closed /\ \E h \in Handles : Connect(h)) =>
            CallTopics(out', "client.subscribe")
                = {SubTopic(p) : p \in Keys(subs_counter)}]_vars

----------------------------------------------------------------------------
(* C8: the defaults of publish *)

\* the client.publish call of a turn
PublishCall(o) == o.eff[CHOOSE i \in DOMAIN o.eff : o.eff[i].e = "client.publish"]

\* C8: a forwarded publish carries qos 1 when options is absent or has no qos
\* field and retain false when options is absent or has no retain field; a qos
\* or retain that is present, qos 0 and retain false included, is forwarded as
\* it is.
C8_PublishDefaults ==
    (out.act = "publish" /\ Has(out, "client.publish")) =>
        LET c == PublishCall(out) IN
        /\ ~out.opts.present => (c.qos = 1 /\ c.retain = "false")
        /\ (out.opts.present /\ out.opts.qos = NoQos) => c.qos = 1
        /\ (out.opts.present /\ out.opts.retain = "undefined") => c.retain = "false"
        /\ (out.opts.present /\ out.opts.qos # NoQos) => c.qos = out.opts.qos
        /\ (out.opts.present /\ out.opts.retain # "undefined") => c.retain = out.opts.retain

\* a publish with an explicit qos 0 was forwarded with qos 0
C8_Witness ==
    /\ out.act = "publish" /\ Has(out, "client.publish")
    /\ out.opts.present /\ out.opts.qos = 0 /\ PublishCall(out).qos = 0

----------------------------------------------------------------------------
(* C9: done of publish *)

\* C9 as stated: the acknowledgment callback of publish does not invoke done;
\* done of publish runs in a turn of the deferred queue.
C9_AsStated ==
    \A i \in DOMAIN out.eff :
        (out.eff[i].e = "invoke" /\ out.eff[i].op = "publish") => out.act = "deferred"

----------------------------------------------------------------------------
(* C10: the order of close *)

\* the effects of the once("close") listener, in the order the claim gives
CloseOrder(eff) ==
    \E i, j, k, l \in DOMAIN eff :
        /\ i < j /\ j < k /\ k < l
        /\ eff[i].e = "trie.close"
        /\ eff[j].e = "delete client"
        /\ eff[k].e = "emit" /\ eff[k].who = "closed"
        /\ eff[l].e = "defer" /\ eff[l].op = "close"

\* C10 as stated: the first close() clears the counter and requests
\* client.end in the call itself; the dispatch engine's teardown, the "closed"
\* event and the deferral of done happen in the "close" event of the
\* transport only, after one another and together with the handle's discard.
C10_AsStated ==
    [][/\ \A d \in CloseDones :
            (Close(d) /\ ~closed /\ \A h \in Handles : hstate[h] \notin {"ended", "closed"}) =>
                /\ subs_counter' = Clear(subs_counter)
                /\ Has(out', "client.end")
                /\ ~Has(out', "trie.close") /\ ~Emitted(out', "closed")
                /\ ~Has(out', "defer") /\ ~Has(out', "invoke")
       /\ (Has(out', "trie.close") \/ Emitted(out', "closed")
             \/ \E i \in DOMAIN out'.eff :
                   out'.eff[i].op = "close" /\ out'.eff[i].e = "defer") =>
            ((\E h \in Handles : CloseEvent(h)) /\ CloseOrder(out'.eff))]_vars

----------------------------------------------------------------------------
(* C11: a failure reported by an acknowledgment *)

\* C11 as stated: when the acknowledgment of a subscribe, unsubscribe or
\* publish reports a failure, the call's done is deferred or invoked with that
\* failure as its error argument, and the turn calls nothing on the transport.
C11_AsStated ==
    [][\A r \in BagToSet(inflight) :
          Ack(r, "failed") =>
              /\ ~TouchedHandle(out')
              /\ \A i \in DOMAIN out'.eff :
                    out'.eff[i].e = "invoke" => out'.eff[i].err = "failed"
              /\ \A i \in DOMAIN deferred' \ DOMAIN deferred :
                    deferred'[i].err = "failed"]_vars

----------------------------------------------------------------------------
(* C12: the fan-out of an inbound message *)

\* the number of times callback cb was invoked in a turn
Invocations(o, cb) ==
    Cardinality({i \in DOMAIN o.eff : o.eff[i].e = "callback" /\ o.eff[i].who = cb})

----------------------------------------------------------------------------
(* C13: the counter against the dispatch engine's registrations *)

\* the registrations live in the dispatch engine for exactly pattern p
Registrations(p) == {cb \in Callbacks : <<p, cb>> \in trie}

\* C13 as stated: in every state the count of every pattern equals the number
\* of registrations the dispatch engine holds for that pattern, and the
\* pattern is a key of the counter exactly when that count is positive.
C13_AsStated ==
    \A p \in Patterns :
        /\ subs_counter[p] = Cardinality(Registrations(p))
        /\ p \in Keys(subs_counter) <=> subs_counter[p] > 0

----------------------------------------------------------------------------
(* C14: after the transport's "error" event *)

\* a transport handle is created in this step
Created(h) == hstate[h] = "none" /\ hstate'[h] # "none"

\* C14 as stated: the "error" event leaves the adapter without a handle;
\* while it has none, only _startConn gives it one, and no turn other than a
\* _startConn call creates a handle or emits "ready".
C14_AsStated ==
    [][/\ (\E h \in Handles : TransportError(h)) => client' = Undefined
       /\ (client = Undefined /\ ~StartConn) =>
             /\ client' = Undefined
             /\ ~Emitted(out', "ready")
       /\ \A h \in Handles : Created(h) => (StartConn /\ client = Undefined)]_vars

----------------------------------------------------------------------------
(* C15: one transport handle *)

\* the connection state of the adapter
ConnectionState ==
    IF closed THEN "Closed"
    ELSE IF client = Undefined THEN "Disconnected"
    ELSE CASE hstate[client] = "connecting" -> "Connecting"
           [] hstate[client] = "connected" -> "Connected"
           [] hstate[client] = "ended" -> "Closing"
           [] OTHER -> "Invalid"

\* this._client is absent or one transport that was created and has not closed
OwnsLiveHandle ==
    /\ client \in Handles \cup {Undefined}
    /\ client # Undefined => hstate[client] \in {"connecting", "connected", "ended"}
    /\ ConnectionState \in {"Connecting", "Connected", "Closing"} => client \in Handles
    /\ ConnectionState # "Invalid"

\* C15: this._client holds at most one handle, a live one, and holds one in
\* the states Connecting, Connected and Closing; _startConn called while a
\* handle is held creates no transport and registers nothing, and a transport is
\* created only by _startConn called while no handle is held.
C15_OneHandle ==
    /\ OwnsLiveHandle
    /\ [][/\ OwnsLiveHandle'
           /\ (StartConn /\ client # Undefined) =>
                 /\ out'.eff = <<>>
                 /\ UNCHANGED <<client, hstate, closeL>>
           /\ \A h \in Handles :
                 Created(h) =>
                     /\ client = Undefined /\ client' = h
                     /\ \A g \in Handles \ {h} : ~Created(g)]_vars

\* _startConn was called while a handle was held
C15_Witness == out.act = "_startConn" /\ out.eff = <<>> /\ client # Undefined

----------------------------------------------------------------------------
(* C16: no use of a discarded handle *)

\* the turns that call a method of this._client
HandleUsers == {"subscribe", "unsubscribe", "publish", "close", "on connect"}

\* C16 as stated: no subscribe, unsubscribe, publish, close or replay on a
\* "connect" event reaches a call on this._client while the property is
\* absent, which in JavaScript throws a TypeError.
C16_AsStated == out.act \in HandleUsers => ~Threw(out, "TypeError")

----------------------------------------------------------------------------
(* C17: done of subscribe against the broker's acknowledgment *)

\* the broker-level subscribe of pattern p is awaiting its acknowledgment
SubscribeOutstanding(p) ==
    \E r \in BagToSet(inflight) : r.kind = "sub" /\ r.topic = p

\* C17 as stated: when done of a subscribe call is invoked, no broker-level
\* subscribe of the call's pattern is still awaiting its acknowledgment.
C17_AsStated ==
    \A i \in DOMAIN out.eff :
        (out.eff[i].e = "invoke" /\ out.eff[i].op = "subscribe") =>
            ~SubscribeOutstanding(out.eff[i].topic)

----------------------------------------------------------------------------
(* C18: the broker's subscriptions against the counter *)

\* no acknowledgment of a subscribe, unsubscribe or replayed subscribe is
\* outstanding
Quiescent == inflight = EmptyBag /\ \A b \in DOMAIN batches : batches[b] = {}

\* C18 as stated: in every quiescent state of a connected adapter the patterns
\* the broker holds subscribed for the handle are the patterns the counter
\* counts.
C18_AsStated ==
    (client # Undefined /\ hstate[client] = "connected" /\ Quiescent) =>
        broker = Keys(subs_counter)

----------------------------------------------------------------------------
(* C19: done of subscribe and unsubscribe is invoked, once, and later *)

\* the done callbacks of operation op on pattern p that are still owed: their
\* request awaits its acknowledgment or their deferred task has not run
Pending(op, p) ==
    LET reqs == {r \in BagToSet(inflight) : r.op = op /\ r.topic = p}
        tasks == {i \in DOMAIN deferred :
                    /\ deferred[i].kind = "done"
                    /\ deferred[i].op = op /\ deferred[i].topic = p}
    IN BagCardinality([r \in reqs |-> CopiesIn(r, inflight)]) + Cardinality(tasks)

\* the done callbacks of operation op on pattern p invoked in a turn
InvokeCount(o, op, p) ==
    Cardinality({i \in DOMAIN o.eff :
                    /\ o.eff[i].e = "invoke"
                    /\ o.eff[i].op = op /\ o.eff[i].topic = p})

\* a call of operation op on pattern p that does not throw
Called(op, p) ==
    /\ ~Has(out', "throw")
    /\ \E s \in Subs :
          /\ s[1] = p
          /\ \/ op = "subscribe" /\ Subscribe(s[1], s[2])
             \/ op = "unsubscribe" /\ Unsubscribe(s[1], s[2])

\* C19: every subscribe and unsubscribe call owes one done, a done is owed
\* until the turn that invokes it, that turn is never the call itself but a
\* turn of the deferred queue, and with every request acknowledged and every
\* deferred task run an owed done is invoked in the end.
C19_DoneOnceLater ==
    /\ [][\A op \in {"subscribe", "unsubscribe"}, p \in Patterns :
             /\ Pending(op, p)'
                   = Pending(op, p) + One(Called(op, p)) - InvokeCount(out', op, p)
             /\ Called(op, p) => ~Has(out', "invoke")
             /\ InvokeCount(out', op, p) > 0 =>
                   (out'.act = "deferred" /\ InvokeCount(out', op, p) = 1)]_vars
    /\ \A op \in {"subscribe", "unsubscribe"}, p \in Patterns :
          (Pending(op, p) > 0) ~> (InvokeCount(out, op, p) = 1)

\* done of an unsubscribe that went to the broker was invoked from the
\* deferred queue
C19_Witness ==
    /\ out.act = "deferred"
    /\ InvokeCount(out, "unsubscribe", <<"a", "+">>) = 1
    /\ Quiescent /\ deferred = <<>>

----------------------------------------------------------------------------
(* C20: no delivery through a registration after its unsubscribe *)

\* a message awaits its deferred dispatch
DispatchQueued == \E i \in DOMAIN deferred : deferred[i].kind = "dispatch"

====
